---- MODULE Spec2Model ----
(***************************************************************************)
(* A model of the image-format converter.  Two React components live in    *)
(* the repository: the two-way converter (unnamed/part_000) and the older  *)
(* one-way SVG converter (src/App.tsx).  The module contains                *)
(*   - the raster-to-vector tracer (convertImageDataToSvg / tracePath) as  *)
(*     step operators on a record of its local variables, iterated          *)
(*     one loop iteration at a time under TracerSpec;                      *)
(*   - the component state and its event handlers under Spec.              *)
(* JavaScript strings are sequences of one-character strings.              *)
(***************************************************************************)
EXTENDS Integers, Sequences, FiniteSets, TLC

VARIABLES
    component,       \* which App component is mounted: "part_000" | "App.tsx"
    uploadedFile,    \* useState<File | null>      (svgFile in App.tsx)
    fileContent,     \* useState<string>           (svgContent in App.tsx)
    convertedFiles,  \* useState<ConvertedFile[]>
    extractedPaths,  \* useState<string[]>
    quality,         \* useState<number>, in tenths
    width,           \* useState<number>
    height,          \* useState<number>
    isConverting,    \* useState(false)
    conversionMode,  \* useState<ConversionMode>
    svgTraceSettings,\* useState({threshold, simplify, smoothing})
    inflight,        \* conversions whose continuation has not fired yet
    pendingReads,    \* file.text() / FileReader reads not yet delivered
    objectUrls,      \* object URLs created and not revoked
    nextUrl,         \* the next fresh object URL
    tracer,          \* locals of one convertImageDataToSvg invocation
    lastOutput       \* markup returned by the previous invocation on this input

vars == <<component, uploadedFile, fileContent, convertedFiles, extractedPaths,
          quality, width, height, isConverting, conversionMode,
          svgTraceSettings, inflight, pendingReads, objectUrls, nextUrl,
          tracer, lastOutput>>

appVars == <<component, uploadedFile, fileContent, convertedFiles,
             extractedPaths, quality, width, height, isConverting,
             conversionMode, svgTraceSettings, inflight, pendingReads,
             objectUrls, nextUrl>>

tracerVars == <<tracer, lastOutput>>

(***************************************************************************)
(* Bounds of the model.                                                    *)
(***************************************************************************)
MaxWidth == 9        \* exhaustive pixel buffers are 1..MaxWidth wide
MaxHeight == 5       \* and 1..MaxHeight high
CapWidth == 32       \* width of the large buffers that reach the point cap
CapHeight == 28      \* height of the large buffers
MaxRuns == 2         \* invocations of the tracer on one input
MaxUrls == 4         \* object URLs created in one behaviour
MaxPending == 1      \* file reads in flight at once
MaxElements == 3     \* path elements of an enumerated vector document

(***************************************************************************)
(* Program constants.                                                      *)
(***************************************************************************)
Stride == 4          \* y += 4, x += 4, dx/dy in {-4, 0, 4}
PointCap == 50       \* points.length < 50
MinPoints == 3       \* points.length < 3
MinPathLength == 10  \* path.length > 10
AlphaFloor == 128    \* a > 128
DefaultThreshold == 128
DefaultWidth == 800
DefaultHeight == 600
DefaultQuality == 10 \* quality 1, counted in tenths

(***************************************************************************)
(* Strings.                                                                *)
(***************************************************************************)
Lower(c) ==
    CASE c = "A" -> "a" [] c = "B" -> "b" [] c = "C" -> "c" [] c = "D" -> "d"
      [] c = "E" -> "e" [] c = "G" -> "g" [] c = "J" -> "j" [] c = "N" -> "n"
      [] c = "P" -> "p" [] c = "S" -> "s" [] c = "T" -> "t" [] c = "V" -> "v"
      [] c = "X" -> "x" [] OTHER -> c

Upper(c) ==
    CASE c = "a" -> "A" [] c = "b" -> "B" [] c = "c" -> "C" [] c = "d" -> "D"
      [] c = "e" -> "E" [] c = "g" -> "G" [] c = "j" -> "J" [] c = "n" -> "N"
      [] c = "p" -> "P" [] c = "s" -> "S" [] c = "t" -> "T" [] c = "v" -> "V"
      [] c = "x" -> "X" [] OTHER -> c

toLowerCase(s) == [i \in 1..Len(s) |-> Lower(s[i])]

toUpperCase(s) == [i \in 1..Len(s) |-> Upper(s[i])]

startsWith(s, p) == Len(s) >= Len(p) /\ SubSeq(s, 1, Len(p)) = p

endsWith(s, p) == Len(s) >= Len(p) /\ SubSeq(s, Len(s) - Len(p) + 1, Len(s)) = p

\* the positions at which pat occurs in s
Occurrences(s, pat) ==
    {i \in 1..(Len(s) - Len(pat) + 1) : SubSeq(s, i, i + Len(pat) - 1) = pat}

\* String.prototype.replace with a string pattern: the first occurrence only
replace(s, pat, rep) ==
    IF Occurrences(s, pat) = {} THEN s
    ELSE LET i == CHOOSE k \in Occurrences(s, pat) :
                      \A j \in Occurrences(s, pat) : k <= j
         IN SubSeq(s, 1, i - 1) \o rep \o SubSeq(s, i + Len(pat), Len(s))

\* replace(/\.(png|jpe?g)$/i, rep): the extension at the end, any case
replaceRasterExt(s, rep) ==
    LET l == toLowerCase(s)
        cut == IF endsWith(l, <<".", "j", "p", "e", "g">>) THEN 5
               ELSE IF endsWith(l, <<".", "p", "n", "g">>) THEN 4
               ELSE IF endsWith(l, <<".", "j", "p", "g">>) THEN 4
               ELSE 0
    IN IF cut = 0 THEN s ELSE SubSeq(s, 1, Len(s) - cut) \o rep

RECURSIVE Digits(_)
\* the number of characters of `${n}` for an integer n
Digits(n) ==
    IF n < 0 THEN 1 + Digits(0 - n)
    ELSE IF n < 10 THEN 1 ELSE 1 + Digits(n \div 10)

(***************************************************************************)
(* Pixel buffers.  An ImageData is a flat row-major buffer of r,g,b,a      *)
(* bytes; here its bytes are given by the colour of the 4x4 block a pixel  *)
(* lies in, and Data(imageData, i) is data[i].                             *)
(***************************************************************************)
Palette ==
    [black |-> <<0, 0, 0, 255>>,        \* dark, opaque
     white |-> <<255, 255, 255, 255>>,  \* bright, opaque
     ghost |-> <<0, 0, 0, 0>>,          \* dark, fully transparent
     dusk  |-> <<90, 30, 60, 200>>,     \* brightness 60, alpha 200
     mist  |-> <<255, 255, 255, 0>>,    \* bright, fully transparent
     haze  |-> <<255, 255, 255, 129>>]  \* bright, alpha just above 128

\* the colours of the exhaustively enumerated buffers
Colours == {"black", "white", "ghost"}

Ceil4(n) == (n + Stride - 1) \div Stride

Blocks(w, h) == (0..(Ceil4(w) - 1)) \X (0..(Ceil4(h) - 1))

Data(imageData, i) ==
    LET p  == i \div 4
        px == p % imageData.width
        py == p \div imageData.width
    IN Palette[imageData.cells[<<px \div Stride, py \div Stride>>]][(i % 4) + 1]

SmallImages ==
    UNION {UNION {{[width |-> w, height |-> h, cells |-> c] :
                      c \in [Blocks(w, h) -> Colours]} :
                  h \in 1..MaxHeight} :
           w \in 1..MaxWidth}

\* large buffers with more sample points than the point cap: all ink; regions
\* of 8, 1, 2 and 3 samples apart from each other; ink with transparent holes
LargeImages ==
    {[width |-> CapWidth, height |-> CapHeight,
      cells |-> [b \in Blocks(CapWidth, CapHeight) |-> "black"]],
     [width |-> CapWidth, height |-> CapHeight,
      cells |-> [b \in Blocks(CapWidth, CapHeight) |->
                    IF b[2] = 0 \/ b = <<2, 3>> THEN "black"
                    ELSE IF b[2] = 4 /\ b[1] \in {5, 6} THEN "black"
                    ELSE IF b[2] = 6 /\ b[1] <= 2 THEN "dusk"
                    ELSE "white"]],
     [width |-> CapWidth, height |-> CapHeight,
      cells |-> [b \in Blocks(CapWidth, CapHeight) |->
                    IF (b[1] + b[2]) % 3 = 0 THEN "ghost" ELSE "black"]]}

\* the 8x8 buffer in which every pixel is black and fully opaque
Black8x8 == [width |-> 8, height |-> 8, cells |-> [b \in Blocks(8, 8) |-> "black"]]

\* the buffers in which every pixel is white, with any of three alphas
WhiteImages ==
    UNION {UNION {{[width |-> w, height |-> h, cells |-> c] :
                      c \in [Blocks(w, h) -> {"white", "mist", "haze"}]} :
                  h \in 1..MaxHeight} :
           w \in 1..MaxWidth}

Images == SmallImages \cup LargeImages \cup {Black8x8} \cup WhiteImages

\* the thresholds the tracer is run with, the ends of 0..255 among them
Thresholds == {0, 60, 128, 255}

\* the thresholds set with the slider of the settings form (50..200)
SliderThresholds == {128, 60}

(***************************************************************************)
(* tracePath and convertImageDataToSvg.                                    *)
(***************************************************************************)
\* brightness = (r + g + b) / 3 is a real number; brightness < threshold
\* is compared without rounding, i.e. r + g + b < 3 * threshold
BrightnessBelowOrEqual(r, g, b, threshold) == r + g + b <= 3 * threshold

BrightnessBelow(r, g, b, threshold) == r + g + b < 3 * threshold

\* const visited = new Set<string>(), a fresh set for every invocation
NewVisitedShared(previous) == previous

NewVisited(previous) == {}

\* while (stack.length > 0 && points.length < 50)
LoopConditionNoCap(stack, points) == Len(stack) > 0

LoopCondition(stack, points) == Len(stack) > 0 /\ Len(points) < PointCap

\* if (points.length < 3) return ''
TooFewPointsOff(points) == Len(points) < MinPoints - 1

TooFewPoints(points) == Len(points) < MinPoints

\* the neighbour loops with dx < 4 in place of dx <= 4
NeighboursShortLoop(x, y) ==
    <<[x |-> x - Stride, y |-> y - Stride], [x |-> x - Stride, y |-> y],
      [x |-> x - Stride, y |-> y + Stride], [x |-> x, y |-> y - Stride],
      [x |-> x, y |-> y + Stride]>>

\* the pushes of the neighbour loops, dx outer and dy inner
Neighbours(x, y) ==
    <<[x |-> x - Stride, y |-> y - Stride], [x |-> x - Stride, y |-> y],
      [x |-> x - Stride, y |-> y + Stride], [x |-> x, y |-> y - Stride],
      [x |-> x, y |-> y + Stride], [x |-> x + Stride, y |-> y - Stride],
      [x |-> x + Stride, y |-> y], [x |-> x + Stride, y |-> y + Stride]>>

\* `M x y`, then ` L x y` for every further point, then ` Z`
PathCommands(points) ==
    [i \in 1..(Len(points) + 1) |->
        IF i = 1 THEN [op |-> "M", x |-> points[1].x, y |-> points[1].y]
        ELSE IF i <= Len(points)
             THEN [op |-> "L", x |-> points[i].x, y |-> points[i].y]
             ELSE [op |-> "Z", x |-> 0, y |-> 0]]

\* the value tracePath returns: '' is the empty sequence
PathOf(points) == IF TooFewPoints(points) THEN <<>> ELSE PathCommands(points)

RECURSIVE PathLength(_)
\* path.length, the number of characters of the path string
PathLength(path) ==
    IF path = <<>> THEN 0
    ELSE LET c == path[Len(path)]
             front == SubSeq(path, 1, Len(path) - 1)
         IN PathLength(front) +
            (IF c.op = "M" THEN 3 + Digits(c.x) + Digits(c.y)
             ELSE IF c.op = "L" THEN 4 + Digits(c.x) + Digits(c.y)
             ELSE 2)

\* the state of an invocation before the first iteration of the scan
InitTracer(imageData, w, h, threshold, visited) ==
    [imageData |-> imageData, width |-> w, height |-> h,
     threshold |-> threshold,
     phase |-> IF h > 0 /\ w > 0 THEN "scan" ELSE "done",
     x |-> 0, y |-> 0, visited |-> visited, svgPaths |-> <<>>,
     r |-> 0, g |-> 0, b |-> 0, a |-> 0,
     stack |-> <<>>, points |-> <<>>]

\* x += 8 in the inner loop
AdvanceSkipsSample(t) ==
    IF t.x + 2 * Stride < t.width THEN [t EXCEPT !.x = t.x + 2 * Stride]
    ELSE IF t.y + Stride < t.height
         THEN [t EXCEPT !.x = 0, !.y = t.y + Stride]
         ELSE [t EXCEPT !.x = 0, !.y = t.y + Stride, !.phase = "done"]

\* x += 4 of the inner loop, y += 4 of the outer one
Advance(t) ==
    IF t.x + Stride < t.width THEN [t EXCEPT !.x = t.x + Stride]
    ELSE IF t.y + Stride < t.height
         THEN [t EXCEPT !.x = 0, !.y = t.y + Stride]
         ELSE [t EXCEPT !.x = 0, !.y = t.y + Stride, !.phase = "done"]

\* one iteration of the body of the scan loops, up to the call of tracePath
ScanIteration(t) ==
    LET index == (t.y * t.width + t.x) * 4
        r == Data(t.imageData, index)
        g == Data(t.imageData, index + 1)
        b == Data(t.imageData, index + 2)
        a == Data(t.imageData, index + 3)
    IN IF <<t.x, t.y>> \in t.visited THEN Advance(t)
       ELSE IF BrightnessBelow(r, g, b, t.threshold) /\ a > AlphaFloor
            THEN [t EXCEPT !.phase = "trace", !.r = r, !.g = g, !.b = b,
                           !.a = a,
                           !.stack = <<[x |-> t.x, y |-> t.y]>>,
                           !.points = <<>>]
            ELSE Advance(t)

\* the iteration without the visited.has(key) test
TraceIterationNoVisitedTest(t) ==
    LET p     == t.stack[Len(t.stack)]
        rest  == SubSeq(t.stack, 1, Len(t.stack) - 1)
        index == (p.y * t.width + p.x) * 4
    IN IF p.x < 0 \/ p.x >= t.width \/ p.y < 0 \/ p.y >= t.height
       THEN [t EXCEPT !.stack = rest]
       ELSE IF ~BrightnessBelow(Data(t.imageData, index),
                                Data(t.imageData, index + 1),
                                Data(t.imageData, index + 2), t.threshold)
            THEN [t EXCEPT !.stack = rest]
            ELSE [t EXCEPT !.visited = t.visited \cup {<<p.x, p.y>>},
                           !.points = Append(t.points, [x |-> p.x, y |-> p.y]),
                           !.stack = rest \o Neighbours(p.x, p.y)]

\* the iteration that pushes a sample rejected on brightness back on the stack
TraceIterationRepushesRejected(t) ==
    LET p     == t.stack[Len(t.stack)]
        rest  == SubSeq(t.stack, 1, Len(t.stack) - 1)
        index == (p.y * t.width + p.x) * 4
    IN IF \/ <<p.x, p.y>> \in t.visited
          \/ p.x < 0 \/ p.x >= t.width \/ p.y < 0 \/ p.y >= t.height
       THEN [t EXCEPT !.stack = rest]
       ELSE IF ~BrightnessBelow(Data(t.imageData, index),
                                Data(t.imageData, index + 1),
                                Data(t.imageData, index + 2), t.threshold)
            THEN [t EXCEPT !.stack = Append(rest, p)]
            ELSE [t EXCEPT !.visited = t.visited \cup {<<p.x, p.y>>},
                           !.points = Append(t.points, [x |-> p.x, y |-> p.y]),
                           !.stack = rest \o Neighbours(p.x, p.y)]

\* the iteration rejecting on the whole seed test, alpha included
TraceIterationTestsAlpha(t) ==
    LET p     == t.stack[Len(t.stack)]
        rest  == SubSeq(t.stack, 1, Len(t.stack) - 1)
        index == (p.y * t.width + p.x) * 4
    IN IF \/ <<p.x, p.y>> \in t.visited
          \/ p.x < 0 \/ p.x >= t.width \/ p.y < 0 \/ p.y >= t.height
       THEN [t EXCEPT !.stack = rest]
       ELSE IF \/ ~BrightnessBelow(Data(t.imageData, index),
                                   Data(t.imageData, index + 1),
                                   Data(t.imageData, index + 2), t.threshold)
               \/ Data(t.imageData, index + 3) <= AlphaFloor
            THEN [t EXCEPT !.stack = rest]
            ELSE [t EXCEPT !.visited = t.visited \cup {<<p.x, p.y>>},
                           !.points = Append(t.points, [x |-> p.x, y |-> p.y]),
                           !.stack = rest \o Neighbours(p.x, p.y)]

\* the iteration with visited.add(key) also on the brightness rejection
TraceIterationMarksRejected(t) ==
    LET p     == t.stack[Len(t.stack)]
        rest  == SubSeq(t.stack, 1, Len(t.stack) - 1)
        index == (p.y * t.width + p.x) * 4
    IN IF \/ <<p.x, p.y>> \in t.visited
          \/ p.x < 0 \/ p.x >= t.width \/ p.y < 0 \/ p.y >= t.height
       THEN [t EXCEPT !.stack = rest]
       ELSE IF ~BrightnessBelow(Data(t.imageData, index),
                                Data(t.imageData, index + 1),
                                Data(t.imageData, index + 2), t.threshold)
            THEN [t EXCEPT !.visited = t.visited \cup {<<p.x, p.y>>},
                           !.stack = rest]
            ELSE [t EXCEPT !.visited = t.visited \cup {<<p.x, p.y>>},
                           !.points = Append(t.points, [x |-> p.x, y |-> p.y]),
                           !.stack = rest \o Neighbours(p.x, p.y)]

\* one iteration of the while loop of tracePath
TraceIteration(t) ==
    LET p     == t.stack[Len(t.stack)]
        rest  == SubSeq(t.stack, 1, Len(t.stack) - 1)
        index == (p.y * t.width + p.x) * 4
    IN IF \/ <<p.x, p.y>> \in t.visited
          \/ p.x < 0 \/ p.x >= t.width \/ p.y < 0 \/ p.y >= t.height
       THEN [t EXCEPT !.stack = rest]
       ELSE IF ~BrightnessBelow(Data(t.imageData, index),
                                Data(t.imageData, index + 1),
                                Data(t.imageData, index + 2), t.threshold)
            THEN [t EXCEPT !.stack = rest]
            ELSE [t EXCEPT !.visited = t.visited \cup {<<p.x, p.y>>},
                           !.points = Append(t.points, [x |-> p.x, y |-> p.y]),
                           !.stack = rest \o Neighbours(p.x, p.y)]

\* the colour of the last collected point in place of the seed's
FillOfLastPoint(t) ==
    LET p == t.points[Len(t.points)]
        index == (p.y * t.width + p.x) * 4
    IN <<Data(t.imageData, index), Data(t.imageData, index + 1),
         Data(t.imageData, index + 2)>>

\* the fill of an emitted element: the colour of the sample the trace began at
FillOf(t) == <<t.r, t.g, t.b>>

\* the return of tracePath and the rest of the body of the scan loops
TraceReturn(t) ==
    LET path == PathOf(t.points)
        emitted ==
            IF PathLength(path) > MinPathLength
            THEN Append(t.svgPaths,
                        [d |-> path, fill |-> FillOf(t),
                         opacity |-> [num |-> t.a, den |-> 255]])
            ELSE t.svgPaths
    IN Advance([t EXCEPT !.phase = "scan", !.svgPaths = emitted,
                         !.stack = <<>>, !.points = <<>>])

TracerStep(t) ==
    IF t.phase = "scan" THEN ScanIteration(t)
    ELSE IF LoopCondition(t.stack, t.points) THEN TraceIteration(t)
    ELSE TraceReturn(t)

\* the returned document: the root's width and height and its path elements
Markup(t) == [width |-> t.width, height |-> t.height, paths |-> t.svgPaths]

RECURSIVE RunTracer(_)
RunTracer(t) == IF t.phase = "done" THEN t ELSE RunTracer(TracerStep(t))

convertImageDataToSvg(imageData, w, h, threshold) ==
    Markup(RunTracer(InitTracer(imageData, w, h, threshold, NewVisited({}))))

(***************************************************************************)
(* Files, markup and artifacts.                                            *)
(***************************************************************************)
SVG_MIME == <<"i","m","a","g","e","/","s","v","g","+","x","m","l">>
PNG_MIME == <<"i","m","a","g","e","/","p","n","g">>
JPEG_MIME == <<"i","m","a","g","e","/","j","p","e","g">>
IMAGE_PREFIX == <<"i","m","a","g","e","/">>
DOT_SVG == <<".","s","v","g">>
png == <<"p","n","g">>
jpeg == <<"j","p","e","g">>
Formats == {png, jpeg}

\* uploadedFile === null
NoFile == [type |-> <<>>, name |-> <<>>, content |-> "null"]

\* fileContent === ''
EmptyContent == [kind |-> "empty", paths |-> <<>>, image |-> "none"]

\* path elements of a vector document: has is FALSE when the d attribute is
\* missing, d is the attribute (the empty sequence is d="")
Element(has, d) == [has |-> has, d |-> d]

MarkupA ==
    <<Element(TRUE, <<[op |-> "M", x |-> 1, y |-> 1], [op |-> "Z", x |-> 0, y |-> 0]>>),
      Element(FALSE, <<>>),
      Element(TRUE, <<[op |-> "M", x |-> 2, y |-> 2], [op |-> "Z", x |-> 0, y |-> 0]>>)>>

ImageC ==
    [width |-> 9, height |-> 5,
     cells |-> [b \in Blocks(9, 5) |-> IF b = <<2, 1>> THEN "white" ELSE "black"]]

Files ==
    {[type |-> SVG_MIME, name |-> <<"a",".","s","v","g">>,
      content |-> [kind |-> "svg", paths |-> MarkupA, image |-> "none"]],
     [type |-> PNG_MIME, name |-> <<"c",".","P","N","G">>,
      content |-> [kind |-> "image", paths |-> <<>>, image |-> ImageC]],
     [type |-> <<>>, name |-> <<"e",".","j","p","g">>,
      content |-> [kind |-> "image", paths |-> <<>>, image |-> ImageC]]}

\* the values typed into the settings form
Widths == {DefaultWidth, 400}
Heights == {DefaultHeight}
Qualities == {DefaultQuality}

\* file.name.endsWith('.svg') without toLowerCase
isSvgFileCaseSensitive(file) ==
    file.type = SVG_MIME \/ endsWith(file.name, DOT_SVG)

isSvgFile(file) ==
    file.type = SVG_MIME \/ endsWith(toLowerCase(file.name), DOT_SVG)

isRasterFile(file) == startsWith(file.type, IMAGE_PREFIX) /\ ~isSvgFile(file)

\* paths.map(path => path.getAttribute('d')).filter(Boolean)
extractPaths(elements) ==
    LET kept == SelectSeq(elements, LAMBDA e : e.has /\ e.d # <<>>)
    IN [i \in 1..Len(kept) |-> kept[i].d]

\* the path elements DOMParser finds in the document the tracer returned
ElementsOf(svgContent) ==
    [i \in 1..Len(svgContent.paths) |-> Element(TRUE, svgContent.paths[i].d)]

\* prev.filter(f => f.format !== format.toUpperCase()) without the filter
filterPrevNone(prev, format) == <<>>

\* prev.filter(f => f.format !== format.toUpperCase())      (part_000)
filterPrev(prev, format) ==
    SelectSeq(prev, LAMBDA f : f.format # toUpperCase(format))

\* prev.filter(f => f.format !== format)                     (src/App.tsx)
filterPrevApp(prev, format) ==
    SelectSeq(prev, LAMBDA f : f.format # format)

\* uploadedFile ? uploadedFile.name.replace('.svg', `.${format}`)
\*              : `converted.${format}`
rasterFileName(file, format) ==
    IF file # NoFile
    THEN replace(file.name, DOT_SVG, <<".">> \o format)
    ELSE <<"c","o","n","v","e","r","t","e","d",".">> \o format

\* uploadedFile ? uploadedFile.name.replace(/\.(png|jpe?g)$/i, '.svg')
\*              : 'converted.svg'
svgFileName(file) ==
    IF file # NoFile
    THEN replaceRasterExt(file.name, DOT_SVG)
    ELSE <<"c","o","n","v","e","r","t","e","d">> \o DOT_SVG

\* the toBlob callback without its if (blob) test
toBlobCallbackUnguarded(comp, prev, blob, format, fileName, convertedUrl) ==
    (IF comp = "part_000" THEN filterPrev(prev, format)
     ELSE filterPrevApp(prev, format))
        \o <<[name |-> fileName, url |-> convertedUrl,
              format |-> toUpperCase(format)]>>

\* the value of convertedFiles after the toBlob callback
toBlobCallback(comp, prev, blob, format, fileName, convertedUrl) ==
    IF blob
    THEN (IF comp = "part_000" THEN filterPrev(prev, format)
          ELSE filterPrevApp(prev, format))
            \o <<[name |-> fileName, url |-> convertedUrl,
                  format |-> toUpperCase(format)]>>
    ELSE prev

\* img.onload with the white fill after the draw
onloadCanvasOpsFillLast(format, w, h, q) ==
    <<[op |-> "drawImage", args |-> <<0, 0, w, h>>]>>
    \o (IF format = jpeg
        THEN <<[op |-> "fillStyle", args |-> <<"#ffffff">>],
               [op |-> "fillRect", args |-> <<0, 0, w, h>>]>>
        ELSE <<>>)
    \o <<[op |-> "toBlob",
          args |-> <<IF format = png THEN PNG_MIME ELSE JPEG_MIME, q>>]>>

\* the calls img.onload makes on the canvas and its context, in order
onloadCanvasOps(format, w, h, q) ==
    (IF format = jpeg
     THEN <<[op |-> "fillStyle", args |-> <<"#ffffff">>],
            [op |-> "fillRect", args |-> <<0, 0, w, h>>]>>
     ELSE <<>>)
    \o <<[op |-> "drawImage", args |-> <<0, 0, w, h>>],
         [op |-> "toBlob",
          args |-> <<IF format = png THEN PNG_MIME ELSE JPEG_MIME, q>>]>>

(***************************************************************************)
(* The component after construction.                                       *)
(***************************************************************************)
NoTracer == [phase |-> "idle"]

NoOutput == [run |-> 0, markup |-> "none"]

AppInit ==
    /\ uploadedFile = NoFile
    /\ fileContent = EmptyContent
    /\ convertedFiles = <<>>
    /\ extractedPaths = <<>>
    /\ quality = DefaultQuality
    /\ width = DefaultWidth
    /\ height = DefaultHeight
    /\ isConverting = FALSE
    /\ conversionMode = "svg-to-raster"
    /\ svgTraceSettings = [threshold |-> DefaultThreshold, simplify |-> TRUE,
                           smoothing |-> 1]
    /\ inflight = {}
    /\ pendingReads = <<>>
    /\ objectUrls = {}
    /\ nextUrl = 1

(***************************************************************************)
(* TracerSpec: one pixel buffer and threshold, traced one loop iteration   *)
(* at a time, then traced again on the same input.                         *)
(***************************************************************************)
TracerInit ==
    /\ component = "part_000"
    /\ AppInit
    /\ \E imageData \in Images, threshold \in Thresholds :
          tracer = InitTracer(imageData, imageData.width, imageData.height,
                              threshold, NewVisited({}))
    /\ lastOutput = [run |-> 1, markup |-> "none"]

Scan ==
    /\ tracer.phase = "scan"
    /\ tracer' = ScanIteration(tracer)
    /\ UNCHANGED <<appVars, component, lastOutput>>

Trace ==
    /\ tracer.phase = "trace"
    /\ LoopCondition(tracer.stack, tracer.points)
    /\ tracer' = TraceIteration(tracer)
    /\ UNCHANGED <<appVars, component, lastOutput>>

Return ==
    /\ tracer.phase = "trace"
    /\ ~LoopCondition(tracer.stack, tracer.points)
    /\ tracer' = TraceReturn(tracer)
    /\ UNCHANGED <<appVars, component, lastOutput>>

Rerun ==
    /\ tracer.phase = "done"
    /\ lastOutput.run < MaxRuns
    /\ lastOutput' = [run |-> lastOutput.run + 1, markup |-> Markup(tracer)]
    /\ tracer' = InitTracer(tracer.imageData, tracer.width, tracer.height,
                            tracer.threshold, NewVisited(tracer.visited))
    /\ UNCHANGED <<appVars, component>>

TracerNext == Scan \/ Trace \/ Return \/ Rerun

TracerSpec == TracerInit /\ [][TracerNext]_vars

(***************************************************************************)
(* Spec: the mounted component and its event handlers.                     *)
(***************************************************************************)
Init ==
    /\ component \in {"part_000", "App.tsx"}
    /\ AppInit
    /\ tracer = NoTracer
    /\ lastOutput = NoOutput

\* handleFileUpload up to its first await / the start of the FileReader
HandleFileUpload(file) ==
    /\ uploadedFile' = file
    /\ IF component = "part_000"
       THEN /\ convertedFiles' = <<>>
            /\ extractedPaths' = <<>>
            /\ IF isSvgFile(file)
               THEN /\ Len(pendingReads) < MaxPending
                    /\ conversionMode' = "svg-to-raster"
                    /\ pendingReads' = Append(pendingReads,
                                              [file |-> file, as |-> "text"])
               ELSE IF isRasterFile(file)
               THEN /\ Len(pendingReads) < MaxPending
                    /\ conversionMode' = "raster-to-svg"
                    /\ pendingReads' = Append(pendingReads,
                                              [file |-> file, as |-> "dataURL"])
               ELSE UNCHANGED <<conversionMode, pendingReads>>
       ELSE /\ Len(pendingReads) < MaxPending
            /\ pendingReads' = Append(pendingReads,
                                      [file |-> file, as |-> "text"])
            /\ UNCHANGED <<convertedFiles, extractedPaths, conversionMode>>
    /\ UNCHANGED <<component, fileContent, quality, width, height,
                   isConverting, svgTraceSettings, inflight, objectUrls,
                   nextUrl, tracerVars>>

\* the continuation of await file.text(), or reader.onload
ReadDone(i) ==
    LET read == pendingReads[i]
        text == IF component = "App.tsx" /\ read.file.content.kind # "svg"
                THEN [kind |-> "text", paths |-> <<>>, image |-> "none"]
                ELSE read.file.content
    IN /\ pendingReads' = SubSeq(pendingReads, 1, i - 1)
                            \o SubSeq(pendingReads, i + 1, Len(pendingReads))
       /\ fileContent' = text
       /\ IF read.as = "text"
          THEN extractedPaths' = extractPaths(text.paths)
          ELSE UNCHANGED extractedPaths
       /\ IF component = "App.tsx"
          THEN convertedFiles' = <<>>
          ELSE UNCHANGED convertedFiles
       /\ UNCHANGED <<component, uploadedFile, quality, width, height,
                      isConverting, conversionMode, svgTraceSettings,
                      inflight, objectUrls, nextUrl, tracerVars>>

\* the onClick of the two conversion-mode buttons
ToggleMode(mode) ==
    /\ component = "part_000"
    /\ conversionMode' = mode
    /\ uploadedFile' = NoFile
    /\ fileContent' = EmptyContent
    /\ convertedFiles' = <<>>
    /\ extractedPaths' = <<>>
    /\ UNCHANGED <<component, quality, width, height, isConverting,
                   svgTraceSettings, inflight, pendingReads, objectUrls,
                   nextUrl, tracerVars>>

\* the settings form is rendered when uploadedFile is set; which inputs it
\* holds depends on the conversion mode
RasterSettingsShown ==
    /\ uploadedFile # NoFile
    /\ component = "part_000" => conversionMode = "svg-to-raster"

TraceSettingsShown ==
    /\ uploadedFile # NoFile
    /\ component = "part_000"
    /\ conversionMode = "raster-to-svg"

\* buttons that are never disabled
convertDisabledNever == FALSE

\* disabled={isConverting} on every conversion button
convertDisabled == isConverting

SetWidth(w) ==
    /\ RasterSettingsShown
    /\ width' = w
    /\ UNCHANGED <<component, uploadedFile, fileContent, convertedFiles,
                   extractedPaths, quality, height, isConverting,
                   conversionMode, svgTraceSettings, inflight, pendingReads,
                   objectUrls, nextUrl, tracerVars>>

SetHeight(h) ==
    /\ RasterSettingsShown
    /\ height' = h
    /\ UNCHANGED <<component, uploadedFile, fileContent, convertedFiles,
                   extractedPaths, quality, width, isConverting,
                   conversionMode, svgTraceSettings, inflight, pendingReads,
                   objectUrls, nextUrl, tracerVars>>

SetQuality(q) ==
    /\ RasterSettingsShown
    /\ quality' = q
    /\ UNCHANGED <<component, uploadedFile, fileContent, convertedFiles,
                   extractedPaths, width, height, isConverting,
                   conversionMode, svgTraceSettings, inflight, pendingReads,
                   objectUrls, nextUrl, tracerVars>>

SetThreshold(threshold) ==
    /\ TraceSettingsShown
    /\ svgTraceSettings' = [svgTraceSettings EXCEPT !.threshold = threshold]
    /\ UNCHANGED <<component, uploadedFile, fileContent, convertedFiles,
                   extractedPaths, quality, width, height, isConverting,
                   conversionMode, inflight, pendingReads, objectUrls,
                   nextUrl, tracerVars>>

\* convertSvgToRaster (convertToFormat in App.tsx) up to img.src = url; ctx is
\* whether canvas.getContext('2d') returned a context
ConvertSvgToRaster(format, ctx) ==
    /\ RasterSettingsShown
    /\ ~convertDisabled
    /\ fileContent # EmptyContent
    /\ nextUrl + 1 <= MaxUrls
    /\ isConverting' = TRUE
    /\ IF ctx
       THEN /\ inflight' = inflight \cup
                   {[direction |-> "svg-to-raster", format |-> format,
                     phase |-> "loading", url |-> nextUrl,
                     src |-> fileContent, file |-> uploadedFile,
                     width |-> width, height |-> height, quality |-> quality,
                     threshold |-> 0,
                     canvas |-> [width |-> width, height |-> height,
                                 ops |-> <<>>]]}
            /\ objectUrls' = objectUrls \cup {nextUrl}
            /\ nextUrl' = nextUrl + 1
       ELSE UNCHANGED <<inflight, objectUrls, nextUrl>>
    /\ UNCHANGED <<component, uploadedFile, fileContent, convertedFiles,
                   extractedPaths, quality, width, height, conversionMode,
                   svgTraceSettings, pendingReads, tracerVars>>

\* img.onload of convertSvgToRaster: paint, start the encoding, revoke the URL
SvgImgOnload(c) ==
    /\ c.direction = "svg-to-raster"
    /\ c.phase = "loading"
    /\ c.src.kind = "svg"
    /\ inflight' = (inflight \ {c}) \cup
          {[c EXCEPT !.phase = "encoding",
                     !.canvas.ops = onloadCanvasOps(c.format, c.width,
                                                    c.height, c.quality)]}
    /\ objectUrls' = objectUrls \ {c.url}
    /\ UNCHANGED <<component, uploadedFile, fileContent, convertedFiles,
                   extractedPaths, quality, width, height, isConverting,
                   conversionMode, svgTraceSettings, pendingReads, nextUrl,
                   tracerVars>>

\* the image fails to decode: the error event has no handler
ImgError(c) ==
    /\ c.phase = "loading"
    /\ inflight' = inflight \ {c}
    /\ UNCHANGED <<component, uploadedFile, fileContent, convertedFiles,
                   extractedPaths, quality, width, height, isConverting,
                   conversionMode, svgTraceSettings, pendingReads,
                   objectUrls, nextUrl, tracerVars>>

\* the callback of canvas.toBlob; blob is whether the encoding gave a blob
ToBlobCallback(c, blob) ==
    /\ c.direction = "svg-to-raster"
    /\ c.phase = "encoding"
    /\ convertedFiles' = toBlobCallback(component, convertedFiles, blob,
                                        c.format,
                                        rasterFileName(c.file, c.format),
                                        nextUrl)
    /\ IF blob
       THEN /\ objectUrls' = objectUrls \cup {nextUrl}
            /\ nextUrl' = nextUrl + 1
       ELSE UNCHANGED <<objectUrls, nextUrl>>
    /\ isConverting' = FALSE
    /\ inflight' = inflight \ {c}
    /\ UNCHANGED <<component, uploadedFile, fileContent, extractedPaths,
                   quality, width, height, conversionMode, svgTraceSettings,
                   pendingReads, tracerVars>>

\* convertRasterToSvg up to img.src = fileContent
ConvertRasterToSvg ==
    /\ TraceSettingsShown
    /\ ~convertDisabled
    /\ fileContent # EmptyContent
    /\ nextUrl <= MaxUrls
    /\ isConverting' = TRUE
    /\ inflight' = inflight \cup
          {[direction |-> "raster-to-svg", format |-> <<"s","v","g">>,
            phase |-> "loading", url |-> 0,
            src |-> fileContent, file |-> uploadedFile,
            width |-> 0, height |-> 0, quality |-> 0,
            threshold |-> svgTraceSettings.threshold,
            canvas |-> [width |-> 0, height |-> 0, ops |-> <<>>]]}
    /\ UNCHANGED <<component, uploadedFile, fileContent, convertedFiles,
                   extractedPaths, quality, width, height, conversionMode,
                   svgTraceSettings, pendingReads, objectUrls, nextUrl,
                   tracerVars>>

\* img.onload of convertRasterToSvg
RasterImgOnload(c, ctx) ==
    /\ c.direction = "raster-to-svg"
    /\ c.phase = "loading"
    /\ c.src.kind = "image"
    /\ inflight' = inflight \ {c}
    /\ IF ctx
       THEN LET imageData == c.src.image
                svgContent == convertImageDataToSvg(imageData, imageData.width,
                                                    imageData.height,
                                                    c.threshold)
            IN /\ convertedFiles' = <<[name |-> svgFileName(c.file),
                                       url |-> nextUrl,
                                       format |-> <<"S","V","G">>]>>
               /\ objectUrls' = objectUrls \cup {nextUrl}
               /\ nextUrl' = nextUrl + 1
               /\ extractedPaths' = extractPaths(ElementsOf(svgContent))
               /\ isConverting' = FALSE
       ELSE UNCHANGED <<convertedFiles, objectUrls, nextUrl, extractedPaths,
                        isConverting>>
    /\ UNCHANGED <<component, uploadedFile, fileContent, quality, width,
                   height, conversionMode, svgTraceSettings, pendingReads,
                   tracerVars>>

Next ==
    \/ \E file \in Files : HandleFileUpload(file)
    \/ \E i \in 1..Len(pendingReads) : ReadDone(i)
    \/ \E mode \in {"svg-to-raster", "raster-to-svg"} : ToggleMode(mode)
    \/ \E w \in Widths : SetWidth(w)
    \/ \E h \in Heights : SetHeight(h)
    \/ \E q \in Qualities : SetQuality(q)
    \/ \E threshold \in SliderThresholds : SetThreshold(threshold)
    \/ \E format \in Formats, ctx \in BOOLEAN : ConvertSvgToRaster(format, ctx)
    \/ \E c \in inflight : SvgImgOnload(c)
    \/ \E c \in inflight : ImgError(c)
    \/ \E c \in inflight, blob \in BOOLEAN : ToBlobCallback(c, blob)
    \/ ConvertRasterToSvg
    \/ \E c \in inflight, ctx \in BOOLEAN : RasterImgOnload(c, ctx)

Spec == Init /\ [][Next]_vars

(***************************************************************************)
(* UploadSpec: the first upload into a freshly mounted component, over     *)
(* every small vector document and over files of many types and names.     *)
(***************************************************************************)
PathD1 == <<[op |-> "M", x |-> 1, y |-> 1], [op |-> "Z", x |-> 0, y |-> 0]>>
PathD2 == <<[op |-> "M", x |-> 2, y |-> 2], [op |-> "Z", x |-> 0, y |-> 0]>>

\* <path/>, <path d=""/>, <path d="M 1 1 Z"/>, <path d="M 2 2 Z"/>
ElementKinds ==
    {Element(FALSE, <<>>), Element(TRUE, <<>>), Element(TRUE, PathD1),
     Element(TRUE, PathD2)}

Markups == UNION {[1..n -> ElementKinds] : n \in 0..MaxElements}

MarkupFiles ==
    {[type |-> SVG_MIME, name |-> <<"a",".","s","v","g">>,
      content |-> [kind |-> "svg", paths |-> m, image |-> "none"]] :
        m \in Markups}

MimeTypes ==
    {SVG_MIME, PNG_MIME, JPEG_MIME, IMAGE_PREFIX, <<>>,
     <<"t","e","x","t","/","p","l","a","i","n">>,
     <<"I","M","A","G","E","/","P","N","G">>,
     <<"x","i","m","a","g","e","/","p","n","g">>}

FileNames ==
    {<<"a",".","s","v","g">>, <<"B",".","S","V","G">>, <<"c",".","S","v","g">>,
     <<".","s","v","g">>, <<"s","v","g">>, <<"a",".","s","v","g","x">>,
     <<"a",".","s","v","g",".","p","n","g">>, <<"c",".","p","n","g">>,
     <<"d",".","J","P","E","G">>, <<"e",".","t","x","t">>}

MetaFiles ==
    {[type |-> t, name |-> n,
      content |-> [kind |-> "text", paths |-> <<>>, image |-> "none"]] :
        t \in MimeTypes, n \in FileNames}

UploadFiles == MarkupFiles \cup MetaFiles

FirstUpload ==
    /\ uploadedFile = NoFile
    /\ \E file \in UploadFiles : HandleFileUpload(file)

UploadNext ==
    \/ FirstUpload
    \/ \E i \in 1..Len(pendingReads) : ReadDone(i)

UploadSpec == Init /\ [][UploadNext]_vars

(***************************************************************************)
(* Properties of the vector-to-raster converter, checked under Spec.       *)
(***************************************************************************)
\* the step is the toBlob callback of conversion c, called with a blob
Succeeds(c) ==
    /\ c.direction = "svg-to-raster"
    /\ c.phase = "encoding"
    /\ c \notin inflight'
    /\ nextUrl' = nextUrl + 1

\* the indices of the artifacts of a format tag
ArtifactsOf(files, tag) == {i \in 1..Len(files) : files[i].format = tag}

\* C1: when a vector-to-raster conversion completes with a blob while
\* convertedFiles already holds an artifact of the same encoding (left by an
\* earlier run, no upload or mode change having cleared it), convertedFiles
\* afterwards holds exactly one artifact of that encoding, the new one.
C1_Replacement ==
    [][\A c \in inflight :
          (Succeeds(c)
             /\ ArtifactsOf(convertedFiles, toUpperCase(c.format)) # {}) =>
          /\ Cardinality(ArtifactsOf(convertedFiles', toUpperCase(c.format))) = 1
          /\ \A i \in ArtifactsOf(convertedFiles', toUpperCase(c.format)) :
                convertedFiles'[i].url = nextUrl]_vars

\* C2: a vector-to-raster conversion that completes with a blob leaves every
\* artifact of the other encoding in convertedFiles, with the same name, url
\* and format.
C2_OtherEncodingKept ==
    [][\A c \in inflight :
          Succeeds(c) =>
             \A i \in 1..Len(convertedFiles) :
                (convertedFiles[i].format \in {toUpperCase(f) : f \in Formats}
                   /\ convertedFiles[i].format # toUpperCase(c.format)) =>
                \E j \in 1..Len(convertedFiles') :
                   convertedFiles'[j] = convertedFiles[i]]_vars

\* the two-way converter holds a PNG and a JPEG artifact, the JPEG made last
C2_Witness ==
    /\ component = "part_000"
    /\ Len(convertedFiles) = 2
    /\ convertedFiles[1].format = <<"P", "N", "G">>
    /\ convertedFiles[2].format = <<"J", "P", "E", "G">>

\* C3: the steps by which a vector-to-raster conversion fails (no 2D context,
\* the image fails to decode, the encoding gives no blob) leave
\* convertedFiles as it was.
C3_FailureKeepsFiles ==
    [][(\/ (~isConverting /\ isConverting' /\ inflight' = inflight)
        \/ \E c \in inflight :
              /\ c.direction = "svg-to-raster"
              /\ c \notin inflight'
              /\ \/ c.phase = "loading" /\ c.url \in objectUrls'
                 \/ c.phase = "encoding" /\ nextUrl' = nextUrl)
       => convertedFiles' = convertedFiles]_vars

\* a vector-to-raster conversion has failed without a callback while a PNG
\* artifact of an earlier run is in the list
C3_Witness ==
    /\ isConverting
    /\ inflight = {}
    /\ ArtifactsOf(convertedFiles, <<"P", "N", "G">>) # {}

\* C4: once no conversion is in flight any more, isConverting is false again.
C4_ReturnsToIdle == (inflight = {}) => ~isConverting

\* C5: a vector-to-raster conversion never ends, and never leaves the loading
\* phase, with the object URL of its source markup still allocated.
C5_SourceUrlRevoked ==
    [][\A c \in inflight :
          (c.direction = "svg-to-raster" /\ c \notin inflight') =>
             c.url \notin objectUrls']_vars

\* the positions of an operation in the log of a canvas
OpsAt(ops, op) == {i \in 1..Len(ops) : ops[i].op = op}

\* C6: once img.onload has run, a JPEG conversion has filled the rectangle
\* (0, 0, canvas.width, canvas.height) with #ffffff before drawing the image,
\* a PNG conversion has not filled at all, and toBlob was called after the
\* draw; before img.onload nothing was painted or encoded.
C6_FillThenDrawThenEncode ==
    \A c \in inflight :
        c.direction = "svg-to-raster" =>
            LET ops == c.canvas.ops
            IN IF c.phase = "loading" THEN ops = <<>>
               ELSE /\ Cardinality(OpsAt(ops, "drawImage")) = 1
                    /\ Cardinality(OpsAt(ops, "toBlob")) = 1
                    /\ \A d \in OpsAt(ops, "drawImage"), e \in OpsAt(ops, "toBlob") :
                          d < e
                    /\ IF c.format = jpeg
                       THEN /\ Cardinality(OpsAt(ops, "fillRect")) = 1
                            /\ \A f \in OpsAt(ops, "fillRect") :
                                  /\ ops[f].args = <<0, 0, c.canvas.width,
                                                     c.canvas.height>>
                                  /\ f > 1
                                  /\ ops[f - 1].op = "fillStyle"
                                  /\ ops[f - 1].args = <<"#ffffff">>
                                  /\ \A d \in OpsAt(ops, "drawImage") : f < d
                       ELSE OpsAt(ops, "fillRect") = {}

\* a JPEG conversion, started at a width other than the default, is encoding
C6_Witness ==
    \E c \in inflight :
        /\ c.direction = "svg-to-raster"
        /\ c.format = jpeg
        /\ c.phase = "encoding"
        /\ c.canvas.width = 400

\* C15: at most one conversion is in flight at any time, and isConverting is
\* true for as long as one is in flight (so the conversion buttons stay
\* disabled for the whole interval).
C15_OneInFlight ==
    /\ Cardinality(inflight) <= 1
    /\ inflight # {} => isConverting

\* a rasterisation is awaiting the toBlob callback while
\* isConverting is true
C15_Witness ==
    /\ isConverting
    /\ \E c \in inflight : c.direction = "svg-to-raster" /\ c.phase = "encoding"

(***************************************************************************)
(* Properties of the upload path, checked under UploadSpec and Spec.       *)
(***************************************************************************)
\* the d attributes of the elements that carry one, in document order
AttributesOf(elements) ==
    LET carrying == SelectSeq(elements, LAMBDA e : e.has)
    IN [i \in 1..Len(carrying) |-> carrying[i].d]

\* C12: once the text of an uploaded vector document has been delivered,
\* extractedPaths is the sequence of the d attributes of its path elements
\* that carry one, in document order: N strings when all N elements carry it.
C12_ExtractAll ==
    (uploadedFile # NoFile /\ pendingReads = <<>> /\ fileContent.kind = "svg") =>
        extractedPaths = AttributesOf(fileContent.paths)

\* the file is vector: its type is image/svg+xml or the last four characters
\* of its name are .svg in any case
VectorByMetadata(file) ==
    \/ file.type = <<"i","m","a","g","e","/","s","v","g","+","x","m","l">>
    \/ /\ Len(file.name) >= 4
       /\ toLowerCase(SubSeq(file.name, Len(file.name) - 3, Len(file.name)))
             = <<".", "s", "v", "g">>

\* the file is raster: its type begins with image/ and it is not vector
RasterByMetadata(file) ==
    /\ Len(file.type) >= 6
    /\ SubSeq(file.type, 1, 6) = <<"i","m","a","g","e","/">>
    /\ ~VectorByMetadata(file)

\* C13: handleFileUpload routes every file to exactly one of vector (text
\* read, svg-to-raster mode), raster (data-URL read, raster-to-svg mode) and
\* unrecognized (no read, mode unchanged); vector iff the type is
\* image/svg+xml or the name ends in .svg ignoring case, raster iff the type
\* starts with image/ and the file is not vector.
C13_Classifier ==
    [][(component = "part_000" /\ uploadedFile = NoFile
          /\ uploadedFile' # NoFile) =>
         LET file == uploadedFile'
             asVector == /\ pendingReads' = <<[file |-> file, as |-> "text"]>>
                         /\ conversionMode' = "svg-to-raster"
             asRaster == /\ pendingReads' = <<[file |-> file, as |-> "dataURL"]>>
                         /\ conversionMode' = "raster-to-svg"
             asNeither == /\ pendingReads' = <<>>
                          /\ conversionMode' = conversionMode
         IN /\ asVector <=> VectorByMetadata(file)
            /\ asRaster <=> RasterByMetadata(file)
            /\ asNeither <=> (~VectorByMetadata(file) /\ ~RasterByMetadata(file))
            /\ ~(asVector /\ asRaster)
            /\ asVector \/ asRaster \/ asNeither]_vars

\* a file with an empty type and an upper-case .SVG name has been routed to
\* the vector direction
C13_Witness ==
    /\ component = "part_000"
    /\ uploadedFile.type = <<>>
    /\ uploadedFile.name = <<"B", ".", "S", "V", "G">>
    /\ pendingReads = <<[file |-> uploadedFile, as |-> "text"]>>

\* C14: uploading a file that is neither vector nor raster is ignored: the
\* step leaves uploadedFile, fileContent, conversionMode, convertedFiles and
\* extractedPaths as they were and starts no read.
C14_UnrecognisedIgnored ==
    [][(/\ component = "part_000"
        /\ \E file \in Files :
              /\ ~VectorByMetadata(file)
              /\ ~RasterByMetadata(file)
              /\ HandleFileUpload(file))
         => UNCHANGED <<uploadedFile, fileContent, conversionMode,
                        convertedFiles, extractedPaths, pendingReads>>]_vars

\* C21: once an upload or a mode toggle has cleared convertedFiles, the list
\* holds no artifact of a file uploaded earlier: every artifact listed is
\* named after the file that is uploaded now.
C21_NoStaleArtifact ==
    component = "part_000" =>
        \A i \in 1..Len(convertedFiles) :
            /\ uploadedFile # NoFile
            /\ convertedFiles[i].name \in
                  {rasterFileName(uploadedFile, png),
                   rasterFileName(uploadedFile, jpeg),
                   svgFileName(uploadedFile)}

(***************************************************************************)
(* Properties of the tracer, checked under TracerSpec.                     *)
(***************************************************************************)
\* the number of line-drawing commands of a path
LineCommands(d) == Cardinality({i \in 1..Len(d) : d[i].op = "L"})

\* the points a path visits, in order
PointsOfPath(d) ==
    [i \in 1..(Len(d) - 1) |-> <<d[i].x, d[i].y>>]

RECURSIVE TotalPoints(_)
\* the number of points of all the paths of a sequence of path elements
TotalPoints(paths) ==
    IF paths = <<>> THEN 0
    ELSE Len(paths[1].d) - 1 + TotalPoints(Tail(paths))

\* C7: no path emitted by the tracer contains more than 50 line-drawing
\* (L) commands, whatever the pixel buffer and the threshold.
C7_PointCap ==
    \A i \in 1..Len(tracer.svgPaths) :
        LineCommands(tracer.svgPaths[i].d) <= 50

\* a trace was cut off by the cap and its path of 50 points was emitted,
\* while ink samples were still waiting on the stack
C7_Witness ==
    /\ tracer.phase = "scan"
    /\ \E i \in 1..Len(tracer.svgPaths) :
          LineCommands(tracer.svgPaths[i].d) = 49
    /\ Cardinality(tracer.visited) = 50

\* C8: a region trace that collected fewer than 3 points emits no path
\* element, and a region trace that collected 3 or more points emits exactly
\* one, made of the collected points.
C8_MinimumSize ==
    [][(tracer.phase = "trace" /\ tracer'.phase # "trace") =>
          IF Len(tracer.points) < 3
          THEN tracer'.svgPaths = tracer.svgPaths
          ELSE /\ Len(tracer'.svgPaths) = Len(tracer.svgPaths) + 1
               /\ SubSeq(tracer'.svgPaths, 1, Len(tracer.svgPaths))
                     = tracer.svgPaths
               /\ PointsOfPath(tracer'.svgPaths[Len(tracer'.svgPaths)].d)
                     = [i \in 1..Len(tracer.points) |->
                           <<tracer.points[i].x, tracer.points[i].y>>]]_vars

\* an invocation ended having emitted a path for one region and having
\* discarded another region of one or two points
C8_Witness ==
    /\ tracer.phase = "done"
    /\ Len(tracer.svgPaths) >= 1
    /\ Cardinality(tracer.visited) > TotalPoints(tracer.svgPaths)

C10_BlackExample ==
    (tracer.phase = "done" /\ tracer.imageData = Black8x8
        /\ tracer.width = 8 /\ tracer.height = 8 /\ tracer.threshold = 128) =>
        /\ Len(tracer.svgPaths) = 1
        /\ LET e == tracer.svgPaths[1]
               pts == PointsOfPath(e.d)
           IN /\ Len(pts) = 4
              /\ {pts[i] : i \in 1..4} = {<<0, 0>>, <<4, 0>>, <<0, 4>>, <<4, 4>>}
              /\ e.d[1].op = "M"
              /\ \A i \in 2..4 : e.d[i].op = "L"
              /\ e.d[5].op = "Z"
              /\ e.fill = <<0, 0, 0>>
              /\ e.opacity.num = e.opacity.den

\* the trace of the 8x8 all-black buffer with threshold 128 has ended
C10_Witness ==
    /\ tracer.phase = "done"
    /\ tracer.imageData = Black8x8
    /\ tracer.threshold = 128
    /\ Len(tracer.svgPaths) = 1

\* every pixel of the buffer has red = green = blue = 255
AllWhite(imageData) ==
    \A b \in DOMAIN imageData.cells :
        /\ Palette[imageData.cells[b]][1] = 255
        /\ Palette[imageData.cells[b]][2] = 255
        /\ Palette[imageData.cells[b]][3] = 255

\* C11: while and after an all-white buffer is traced, with any threshold in
\* 0..255 and any alphas, no path element has been emitted and no point is
\* marked visited.
C11_WhiteGivesNothing ==
    (AllWhite(tracer.imageData) /\ tracer.threshold \in 0..255) =>
        /\ tracer.svgPaths = <<>>
        /\ tracer.visited = {}
        /\ tracer.phase # "trace"

\* the trace of an all-white buffer of more than one sample, some of it
\* opaque, has ended with the threshold at 255
C11_Witness ==
    /\ tracer.phase = "done"
    /\ AllWhite(tracer.imageData)
    /\ tracer.threshold = 255
    /\ tracer.width > Stride
    /\ \E b \in DOMAIN tracer.imageData.cells :
          Palette[tracer.imageData.cells[b]][4] = 255

\* three times the brightness of the sample at <<x, y>>: red + green + blue
ChannelSum(imageData, x, y) ==
    LET index == (y * imageData.width + x) * 4
    IN Data(imageData, index) + Data(imageData, index + 1)
          + Data(imageData, index + 2)

InBounds(t, x, y) == x >= 0 /\ x < t.width /\ y >= 0 /\ y < t.height

\* every visited coordinate is a sample of the grid, inside the buffer, darker
\* than the threshold
VisitedAreDark ==
    \A v \in tracer.visited :
        /\ v[1] % Stride = 0 /\ v[2] % Stride = 0
        /\ InBounds(tracer, v[1], v[2])
        /\ ChannelSum(tracer.imageData, v[1], v[2]) < 3 * tracer.threshold

\* an iteration of the scan marks nothing itself, and an iteration of the trace
\* that pops a sample at or above the threshold marks nothing
RejectionMarksNothing ==
    LET top == tracer.stack[Len(tracer.stack)]
    IN /\ tracer.phase = "scan" => tracer'.visited = tracer.visited
       /\ (/\ tracer.phase = "trace" /\ tracer'.phase = "trace"
           /\ Len(tracer.stack) > 0
           /\ InBounds(tracer, top.x, top.y)
           /\ ChannelSum(tracer.imageData, top.x, top.y)
                 >= 3 * tracer.threshold)
          => tracer'.visited = tracer.visited

\* C16: throughout an invocation every visited coordinate is a sample-grid
\* point inside the buffer whose brightness is strictly below the threshold;
\* a point rejected on brightness is not marked, and a sample that fails the
\* seed test marks nothing.
C16_VisitedSet == []VisitedAreDark /\ [][RejectionMarksNothing]_vars

\* an invocation has ended with a bright neighbour of a visited sample left
\* unmarked
C16_Witness ==
    /\ tracer.phase = "done"
    /\ tracer.visited # {}
    /\ \E x \in 0..(tracer.width - 1), y \in 0..(tracer.height - 1) :
          /\ x % Stride = 0 /\ y % Stride = 0
          /\ <<x, y>> \notin tracer.visited
          /\ ChannelSum(tracer.imageData, x, y) >= 3 * tracer.threshold
          /\ \E v \in tracer.visited :
                v[1] - x \in {-Stride, 0, Stride} /\ v[2] - y \in {-Stride, 0, Stride}

\* the variant tracer: the same scan and return, with a trace loop that marks
\* the samples it rejects on brightness
VariantStep(t) ==
    IF t.phase = "scan" THEN ScanIteration(t)
    ELSE IF LoopCondition(t.stack, t.points) THEN TraceIterationMarksRejected(t)
    ELSE TraceReturn(t)

RECURSIVE RunVariant(_)
RunVariant(t) == IF t.phase = "done" THEN t ELSE RunVariant(VariantStep(t))

VariantOf(t) ==
    RunVariant(InitTracer(t.imageData, t.width, t.height, t.threshold, {}))

\* C17: for every buffer and threshold the variant tracer that also marks
\* brightness-rejected samples visited returns the same sequence of path
\* elements (points, fill, opacity) as the tracer.
C17_VariantSameOutput ==
    tracer.phase = "done" => tracer.svgPaths = VariantOf(tracer).svgPaths

\* paths were emitted on a buffer where the variant marked samples that the
\* tracer left unmarked
C17_Witness ==
    /\ tracer.phase = "done"
    /\ Len(tracer.svgPaths) >= 2
    /\ VariantOf(tracer).visited # tracer.visited

\* a variant function of the loops: the sample positions the scan has yet to
\* reach, whether a trace is yet to start there, the samples not yet visited,
\* and the height of the stack
Measure(t) ==
    <<IF t.phase = "done" THEN 0
      ELSE (Ceil4(t.height) - t.y \div Stride) * Ceil4(t.width)
              - t.x \div Stride,
      IF t.phase = "scan" THEN 1 ELSE 0,
      Ceil4(t.width) * Ceil4(t.height) - Cardinality(t.visited),
      Len(t.stack)>>

\* the lexicographic order on the values of Measure, well-founded on naturals
LexLess(a, b) ==
    \E i \in 1..4 : a[i] < b[i] /\ \A j \in 1..(i - 1) : a[j] = b[j]

\* the iteration the loops take next makes the measure smaller, and the while
\* loop of tracePath is left with an empty stack or exactly PointCap points
StepDecreases ==
    tracer.phase # "done" =>
        LET next == TracerStep(tracer)
        IN /\ \A i \in 1..4 : Measure(tracer)[i] >= 0
           /\ LexLess(Measure(next), Measure(tracer))
           /\ (tracer.phase = "trace" /\ next.phase # "trace") =>
                 \/ Len(tracer.stack) = 0
                 \/ Len(tracer.points) = PointCap

\* every iteration taken makes the measure smaller
TakenStepDecreases ==
    tracer.phase # "done" => LexLess(Measure(tracer'), Measure(tracer))

\* C18: every region trace ends, with an empty stack or exactly 50 collected
\* points, and so does the whole invocation, although neighbours are pushed
\* several times and rejected samples are pushed again: each iteration of the
\* loops makes a well-founded measure smaller.
C18_Terminates == []StepDecreases /\ [][TakenStepDecreases]_vars

\* an invocation has ended after a trace that stopped at the cap and a trace
\* that emptied its stack
C18_Witness ==
    /\ tracer.phase = "done"
    /\ \E i \in 1..Len(tracer.svgPaths) :
          Len(tracer.svgPaths[i].d) = PointCap + 1
    /\ \E i \in 1..Len(tracer.svgPaths) :
          Len(tracer.svgPaths[i].d) < PointCap + 1

\* C19: within an invocation no sample appears in two emitted paths and none
\* appears twice in one path: the occurrences <<path, position>> of points in
\* the emitted paths all name different samples.
C19_NoOverlap ==
    LET paths == tracer.svgPaths
        occurrences == {<<i, k>> \in (1..Len(paths)) \X (1..(PointCap + 1)) :
                            k <= Len(paths[i].d) - 1}
    IN \A o1, o2 \in occurrences :
          PointsOfPath(paths[o1[1]].d)[o1[2]] = PointsOfPath(paths[o2[1]].d)[o2[2]]
             => o1 = o2

\* two paths were emitted from adjoining regions: a sample of the second is a
\* grid neighbour of a sample of the first
C19_Witness ==
    /\ tracer.phase = "done"
    /\ Len(tracer.svgPaths) >= 2
    /\ \E k1 \in 1..(Len(tracer.svgPaths[1].d) - 1),
          k2 \in 1..(Len(tracer.svgPaths[2].d) - 1) :
          LET p1 == PointsOfPath(tracer.svgPaths[1].d)[k1]
              p2 == PointsOfPath(tracer.svgPaths[2].d)[k2]
          IN /\ p1[1] - p2[1] \in {-Stride, 0, Stride}
             /\ p1[2] - p2[2] \in {-Stride, 0, Stride}

\* the sample at <<x, y>> passes the seed test: darker than the threshold and
\* alpha above 128
IsInk(t, x, y) ==
    /\ ChannelSum(t.imageData, x, y) < 3 * t.threshold
    /\ Data(t.imageData, (y * t.width + x) * 4 + 3) > 128

\* C20: when an invocation has finished, every sample-grid point that is ink
\* is in the visited set, also where traces were cut off by the point cap.
C20_InkConsumed ==
    tracer.phase = "done" =>
        \A x \in 0..(tracer.width - 1), y \in 0..(tracer.height - 1) :
            (x % 4 = 0 /\ y % 4 = 0 /\ IsInk(tracer, x, y))
                => <<x, y>> \in tracer.visited

\* an invocation has finished on a buffer whose ink exceeds the cap: more
\* than PointCap samples are visited, in several paths
C20_Witness ==
    /\ tracer.phase = "done"
    /\ Cardinality(tracer.visited) > PointCap
    /\ Len(tracer.svgPaths) >= 2
    /\ \E x \in 0..(tracer.width - 1), y \in 0..(tracer.height - 1) :
          x % 4 = 0 /\ y % 4 = 0 /\ IsInk(tracer, x, y)

====
